---- MODULE Spec2Model ----
(***************************************************************************)
(* Model of scripts/ev_range_calculator.py: the energy consumption model,  *)
(* the range estimator, the band planner in main and the isodistance       *)
(* reconciler fetch_valhalla_isodistance.                                  *)
(*                                                                         *)
(* Arithmetic.  The program computes in binary floating point; the model   *)
(* computes in fixed point on integers, with truncating division, in these *)
(* units:                                                                  *)
(*   speed   km/h            temperature  degrees C      wind   m/s        *)
(*   grade   m per km        velocity     cm/s           force  0.1 N      *)
(*   power   mW              consumption  1e-6 kWh/km    energy 1e-4 kWh   *)
(*   state of charge / health  percent    fraction  percent                *)
(*   distance (range, contour) 0.01 km                                     *)
(* Every max, abs, comparison, sum, product and quotient of the source is  *)
(* kept, in the source's order.  Distances are exact decimals here: a      *)
(* difference of exactly 1.00 km is not below the tolerance, where the     *)
(* program's float subtraction may land one ulp to either side of 1.0.     *)
(* round(x, 1) is modelled as rounding half up.                            *)
(***************************************************************************)
EXTENDS Integers, Sequences, FiniteSets, TLC

VARIABLES
    \* pipeline (main)
    pc,             \* position of main
    soc, soh,       \* vehicle state (main line 229)
    temp_c, wind_ms,\* weather (main line 232)
    band_results,   \* list of band records (main line 234)
    distances_km,   \* distances requested from the engine (main line 241)
    valid_indices,  \* band index of each requested distance (main line 241)
    request,        \* contours carried by the POST in flight, <<>> when none
    response,       \* the engine's outcome for the call, NoResponse before it
    geometries,     \* list returned by fetch_valhalla_isodistance
    engine_calls,   \* number of POSTs to the routing engine in this run
    max_range,      \* main line 259
    \* function-level harnesses
    fn_in,          \* arguments of the function under evaluation
    fn_out          \* its result; fn_out.done is FALSE before the call

vars == <<pc, soc, soh, temp_c, wind_ms, band_results, distances_km,
          valid_indices, request, response, geometries, engine_calls,
          max_range, fn_in, fn_out>>

pipeVars == <<pc, soc, soh, temp_c, wind_ms, band_results, distances_km,
              valid_indices, request, response, geometries, engine_calls,
              max_range>>

fnVars == <<fn_in, fn_out>>

-----------------------------------------------------------------------------
(* Program constants, lines 36-57, scaled to the model's units.            *)

BATTERY_CAPACITY_KWH == 100
VEHICLE_MASS_KG == 2435
\* 0.28, in hundredths
DRAG_COEFFICIENT == 28
\* 2.62, in hundredths
FRONTAL_AREA_M2 == 262
\* 0.009, in thousandths
ROLLING_RESISTANCE == 9
\* 1.225, in thousandths
AIR_DENSITY_KG_M3 == 1225
\* 0.90, in percent
DRIVETRAIN_EFFICIENCY == 90
\* 0.65, in percent
REGEN_EFFICIENCY == 65
\* 0.4 kW, in mW
AUX_POWER_KW == 400000
RESERVE_SOC_PCT == 5
\* the literal 9.81 of lines 141-142, in hundredths
Gravity == 981
\* the literal 0.5 of line 148 (kW), in mW
MinPower == 500000
\* the fallback 2.0 of line 134 (kW), in mW
HvacFallback == 2000000

\* HVAC_POWER_MAP, lines 47-50: <<lo, hi, power in mW>> in insertion order
HVAC_POWER_MAP ==
    << <<-30, -10, 5000000>>, <<-10, 0, 4000000>>, <<0, 5, 3000000>>,
       <<5, 12, 1500000>>, <<12, 22, 300000>>, <<22, 28, 1500000>>,
       <<28, 35, 3000000>>, <<35, 50, 4500000>> >>

\* ENERGY_BANDS, lines 52-57: fraction in percent
ENERGY_BANDS ==
    << [label |-> "100%", fraction |-> 100, color |-> "#00e5ff"],
       [label |-> "75%",  fraction |-> 75,  color |-> "#00b0ff"],
       [label |-> "50%",  fraction |-> 50,  color |-> "#2979ff"],
       [label |-> "25%",  fraction |-> 25,  color |-> "#7c4dff"] >>

-----------------------------------------------------------------------------
(* Helpers standing for Python built-ins.                                  *)

Max(a, b) == IF a >= b THEN a ELSE b
Abs(a) == IF a < 0 THEN -a ELSE a

-----------------------------------------------------------------------------
(* estimate_hvac_power, lines 130-134: the first band with lo <= t < hi,   *)
(* else the fallback.                                                      *)

RECURSIVE HvacScan(_, _)
HvacScan(t, k) ==
    IF k > Len(HVAC_POWER_MAP) THEN HvacFallback
    ELSE IF HVAC_POWER_MAP[k][1] <= t /\ t < HVAC_POWER_MAP[k][2]
         THEN HVAC_POWER_MAP[k][3]
         ELSE HvacScan(t, k + 1)

estimate_hvac_power(t) == HvacScan(t, 1)

-----------------------------------------------------------------------------
(* compute_energy_consumption_kwh_per_km, lines 137-149.                   *)

\* line 138: v_ms = speed_kmh / 3.6, in cm/s
VMs(speed_kmh) == (speed_kmh * 1000) \div 36

\* line 139: effective_v = v_ms + wind_ms * 0.5, in cm/s
EffectiveV(speed_kmh, w) == VMs(speed_kmh) + w * 50

\* line 140: 0.5 * rho * Cd * A = 0.44933, in 1e-5
AeroCoefficient ==
    (AIR_DENSITY_KG_M3 * DRAG_COEFFICIENT * FRONTAL_AREA_M2) \div 200

\* line 140: f_aero, in 0.1 N
FAero(speed_kmh, w) ==
    LET ev == EffectiveV(speed_kmh, w)
    IN  (((ev * ev) \div 1000) * AeroCoefficient) \div 100000

\* line 141: f_roll, in 0.1 N
FRoll == (ROLLING_RESISTANCE * VEHICLE_MASS_KG * Gravity) \div 10000

\* line 142: f_grade, in 0.1 N (negative downhill)
FGrade(elev) == (VEHICLE_MASS_KG * Gravity * elev) \div 10000

\* line 143: f_total = f_aero + f_roll + max(f_grade, 0)
FTotal(speed_kmh, w, elev) ==
    FAero(speed_kmh, w) + FRoll + Max(FGrade(elev), 0)

\* line 144: regen_recovery, in mW
RegenRecovery(speed_kmh, elev) ==
    IF FGrade(elev) < 0
    THEN ((Abs(FGrade(elev)) * VMs(speed_kmh)) \div 100) * REGEN_EFFICIENCY
    ELSE 0

\* lines 145-146: p_elec = f_total * v_ms / 1000 / DRIVETRAIN_EFFICIENCY, in mW
PElec(speed_kmh, w, elev) ==
    ((FTotal(speed_kmh, w, elev) * VMs(speed_kmh)) \div DRIVETRAIN_EFFICIENCY) * 100

\* lines 147-148 before the floor: p_elec + p_hvac + AUX_POWER_KW - regen
PRaw(speed_kmh, t, w, elev) ==
    PElec(speed_kmh, w, elev) + estimate_hvac_power(t) + AUX_POWER_KW
        - RegenRecovery(speed_kmh, elev)

\* variant of PTotal: the floor of line 148 left out
PTotalNoFloor(speed_kmh, t, w, elev) == PRaw(speed_kmh, t, w, elev)

\* line 148: p_total = max(..., 0.5)
PTotal(speed_kmh, t, w, elev) == Max(PRaw(speed_kmh, t, w, elev), MinPower)

\* line 149
compute_energy_consumption_kwh_per_km(speed_kmh, t, w, elev) ==
    PTotal(speed_kmh, t, w, elev) \div speed_kmh

-----------------------------------------------------------------------------
(* calculate_range_km, lines 152-159; the result is in 0.01 km.            *)

\* variant of UsableSoc: the reserve of line 153 not withheld
UsableSocNoReserve(s) == Max(s, 0)

\* line 153
UsableSoc(s) == Max(s - RESERVE_SOC_PCT, 0)

\* variant of UsableKwh: the fraction taken as the share already used
UsableKwhRemaining(s, h, energy_fraction) ==
    (BATTERY_CAPACITY_KWH * h * UsableSoc(s) * (100 - energy_fraction)) \div 100

\* line 154, in 1e-4 kWh
UsableKwh(s, h, energy_fraction) ==
    (BATTERY_CAPACITY_KWH * h * UsableSoc(s) * energy_fraction) \div 100

\* lines 155-158
AvgConsumption(t, w) ==
    LET c1 == compute_energy_consumption_kwh_per_km(35, t, w, 2)
        c2 == compute_energy_consumption_kwh_per_km(60, t, w, 5)
        c3 == compute_energy_consumption_kwh_per_km(100, t, w, 3)
    IN  (40 * c1 + 40 * c2 + 20 * c3) \div 100

\* line 159
calculate_range_km(s, h, t, w, energy_fraction) ==
    LET avg == AvgConsumption(t, w)
    IN  IF avg > 0
        THEN Max((UsableKwh(s, h, energy_fraction) * 1000) \div (avg \div 10), 0)
        ELSE 0

-----------------------------------------------------------------------------
(* Values of the reconciler.  A geometry is opaque to the program (only    *)
(* its presence and its "type" key are read), so the geometry object of    *)
(* the k-th feature of a response is represented by k.                     *)

\* Python None (line 186, line 247)
None == 0
\* a band record that has no "geometry" key yet (line 238)
Missing == -1
\* the tolerance 1.0 of line 188, in 0.01 km
Tolerance == 100
\* the threshold 1.0 of line 243, in 0.01 km
MinViable == 100

\* round(x, 1) of line 244 on a value in 0.01 km: to the nearest 0.1 km
RoundTenth(x) == ((x + 5) \div 10) * 10

-----------------------------------------------------------------------------
(* The engine's outcomes.  A response is [kind, features]; a feature is    *)
(* [shape, ckind, cval, gkind]:                                            *)
(*   shape  "object" | "other"      the feature is a JSON object or not    *)
(*   ckind  "number" | "null" | "text"   properties.contour; "text" stands *)
(*          for any value float() rejects                                  *)
(*   cval   the contour in 0.01 km when ckind = "number"                   *)
(*   gkind  "typed" | "untyped" | "falsy"   geometry: an object with a     *)
(*          "type" key, a non-empty object without one, or null / {}       *)

\* bound: the longest feature list the engine returns in the model
MaxFeatures == 2

\* offsets (0.01 km) of returned contours from a requested distance
ContourOffsets == {-100, 0, 30, 80}

FailureKinds == {"connection_error", "http_error", "not_json", "non_object"}

NoResponse == [kind |-> "none", features |-> <<>>]

Feature(shape, ckind, cval, gkind) ==
    [shape |-> shape, ckind |-> ckind, cval |-> cval, gkind |-> gkind]

\* features the engine may return for a request
FeatureChoices(distances) ==
    {Feature("object", "number", distances[i] + off, "typed") :
        i \in 1..Len(distances), off \in ContourOffsets}
    \cup {Feature("object", "number", distances[i], g) :
        i \in {j \in 1..Len(distances) : j = 1}, g \in {"untyped", "falsy"}}
    \cup {Feature("other", "null", 0, "falsy"),
          Feature("object", "null", 0, "typed"),
          Feature("object", "null", 0, "untyped"),
          Feature("object", "text", 0, "typed"),
          Feature("object", "text", 0, "falsy")}

Responses(distances) ==
    {[kind |-> k, features |-> <<>>] : k \in FailureKinds}
    \cup {[kind |-> "features", features |-> fs] :
            fs \in UNION {[1..n -> FeatureChoices(distances)] : n \in 0..MaxFeatures}}

-----------------------------------------------------------------------------
(* fetch_valhalla_isodistance, lines 162-202.                              *)

\* geom_by_distance[key] = val on an insertion-ordered dict (line 181),
\* the dict being a sequence of <<key, value>>: an existing key keeps its
\* place and takes the new value, a new key goes last
DictPut(dict, key, val) ==
    IF \E p \in 1..Len(dict) : dict[p][1] = key
    THEN [p \in 1..Len(dict) |->
            IF dict[p][1] = key THEN <<key, val>> ELSE dict[p]]
    ELSE Append(dict, <<key, val>>)

\* the loop of lines 176-182 from feature k on; exc is the exception that
\* leaves the loop, "none" when it runs to its end
RECURSIVE CollectFeatures(_, _, _)
CollectFeatures(features, k, dict) ==
    IF k > Len(features) THEN [exc |-> "none", dict |-> dict]
    ELSE LET feat == features[k] IN
         IF feat.shape # "object"
         THEN [exc |-> "AttributeError", dict |-> dict]            \* line 177
         ELSE IF feat.ckind = "null" \/ feat.gkind = "falsy"
         THEN CollectFeatures(features, k + 1, dict)               \* line 180
         ELSE IF feat.ckind = "text"
         THEN [exc |-> "ValueError", dict |-> dict]                \* line 181
         ELSE IF feat.gkind = "untyped"
         THEN [exc |-> "KeyError",
               dict |-> DictPut(dict, feat.cval, k)]               \* line 182
         ELSE CollectFeatures(features, k + 1, DictPut(dict, feat.cval, k))

\* lines 186-190: the first entry of the dict within the tolerance of d
RECURSIVE MatchFrom(_, _, _)
MatchFrom(d, dict, p) ==
    IF p > Len(dict) THEN None
    ELSE IF Abs(dict[p][1] - d) < Tolerance THEN dict[p][2]
    ELSE MatchFrom(d, dict, p + 1)

\* variant of MatchGeometry: the tolerance test written <=
RECURSIVE MatchFromInclusive(_, _, _)
MatchFromInclusive(d, dict, p) ==
    IF p > Len(dict) THEN None
    ELSE IF Abs(dict[p][1] - d) <= Tolerance THEN dict[p][2]
    ELSE MatchFromInclusive(d, dict, p + 1)

MatchGeometryInclusive(d, dict) == MatchFromInclusive(d, dict, 1)

MatchGeometry(d, dict) == MatchFrom(d, dict, 1)

\* variant of MatchAll: each match put at the front of the list
MatchAllReversed(distances, dict) ==
    [i \in 1..Len(distances) |->
        MatchGeometry(distances[Len(distances) + 1 - i], dict)]

\* lines 184-192: one match per requested distance, in request order
MatchAll(distances, dict) ==
    [i \in 1..Len(distances) |-> MatchGeometry(distances[i], dict)]

\* lines 170-192, the body of the try: the value returned or the exception
TryBody(distances, resp) ==
    IF resp.kind = "connection_error"
    THEN [exc |-> "ConnectionError", results |-> <<>>]             \* line 170
    ELSE IF resp.kind = "http_error"
    THEN [exc |-> "HTTPError", results |-> <<>>]                   \* line 171
    ELSE IF resp.kind = "not_json"
    THEN [exc |-> "JSONDecodeError", results |-> <<>>]             \* line 172
    ELSE IF resp.kind = "non_object"
    THEN [exc |-> "AttributeError", results |-> <<>>]              \* line 173
    ELSE LET got == CollectFeatures(resp.features, 1, <<>>) IN
         IF got.exc # "none"
         THEN [exc |-> got.exc, results |-> <<>>]
         ELSE [exc |-> "none", results |-> MatchAll(distances, got.dict)]

\* variant of FailureResult: an empty list returned on failure
FailureResultEmpty(distances) == <<>>

\* [None] * len(distances_km), lines 195, 199, 202
FailureResult(distances) == [i \in 1..Len(distances) |-> None]

\* subclasses of Exception among the exceptions of the try body
ExceptionClasses ==
    {"ConnectionError", "HTTPError", "JSONDecodeError", "AttributeError",
     "ValueError", "KeyError"}

\* variant of Handle: the catch-all clause of line 200 left out
HandleNoCatchAll(exc, distances) ==
    IF exc = "ConnectionError"
    THEN [escaped |-> FALSE, results |-> FailureResult(distances)]
    ELSE IF exc = "HTTPError"
    THEN [escaped |-> FALSE, results |-> FailureResult(distances)]
    ELSE [escaped |-> TRUE, results |-> <<>>]

\* the except clauses, lines 193-202: the list returned, or escaped
Handle(exc, distances) ==
    IF exc = "ConnectionError"
    THEN [escaped |-> FALSE, results |-> FailureResult(distances)]
    ELSE IF exc = "HTTPError"
    THEN [escaped |-> FALSE, results |-> FailureResult(distances)]
    ELSE IF exc \in ExceptionClasses
    THEN [escaped |-> FALSE, results |-> FailureResult(distances)]
    ELSE [escaped |-> TRUE, results |-> <<>>]

fetch_valhalla_isodistance(distances, resp) ==
    LET body == TryBody(distances, resp) IN
    IF body.exc = "none"
    THEN [escaped |-> FALSE, results |-> body.results]
    ELSE Handle(body.exc, distances)

-----------------------------------------------------------------------------
(* main, lines 222-287: the band planner and the pairing of geometries.    *)

\* line 238: {**band, "range_km": range_km}; the record has no geometry yet
PlannedBand(band, s, h, t, w) ==
    [label |-> band.label, fraction |-> band.fraction, color |-> band.color,
     range_km |-> calculate_range_km(s, h, t, w, band.fraction),
     geometry |-> Missing]

\* variant of Qualifies: every band with a positive range is sent
QualifiesPositive(range_km) == range_km > 0

\* line 243: the band is sent to the engine
Qualifies(range_km) == range_km >= MinViable

\* lines 241-247 from band i on: [bands, distances, indices]
RECURSIVE SelectFrom(_, _, _, _)
SelectFrom(bands, i, distances, indices) ==
    IF i > Len(bands)
    THEN [bands |-> bands, distances |-> distances, indices |-> indices]
    ELSE IF Qualifies(bands[i].range_km)
    THEN SelectFrom(bands, i + 1,
                    Append(distances, RoundTenth(bands[i].range_km)),
                    Append(indices, i))
    ELSE SelectFrom([bands EXCEPT ![i].geometry = None], i + 1,
                    distances, indices)

SelectBands(bands) == SelectFrom(bands, 1, <<>>, <<>>)

\* variant of ShouldFetch: the guard of line 249 left out
ShouldFetchAlways(distances) == TRUE

\* line 249: if distances_km
ShouldFetch(distances) == distances # <<>>

\* lines 251-252: zip stops at the shorter list
RECURSIVE AttachFrom(_, _, _, _)
AttachFrom(bands, indices, geoms, k) ==
    IF k > Len(indices) \/ k > Len(geoms) THEN bands
    ELSE AttachFrom([bands EXCEPT ![indices[k]].geometry = geoms[k]],
                    indices, geoms, k + 1)

AttachGeometries(bands, indices, geoms) == AttachFrom(bands, indices, geoms, 1)

-----------------------------------------------------------------------------
(* Inputs of a run: the values get_vehicle_state and get_weather hand to   *)
(* main.                                                                   *)

SocValues == {3, 5, 6, 80}
SohValues == {10, 50, 95}
TempValues == {-15, 15}
WindValues == {0, 10}

NoCall == [done |-> FALSE, p_total |-> 0, value |-> 0]

Init ==
    /\ pc = "plan"
    /\ soc \in SocValues
    /\ soh \in SohValues
    /\ temp_c \in TempValues
    /\ wind_ms \in WindValues
    /\ band_results = <<>>
    /\ distances_km = <<>>
    /\ valid_indices = <<>>
    /\ request = <<>>
    /\ response = NoResponse
    /\ geometries = <<>>
    /\ engine_calls = 0
    /\ max_range = Missing
    /\ fn_in = <<>>
    /\ fn_out = NoCall

\* lines 235-239, one iteration
PlanBand ==
    /\ pc = "plan"
    /\ Len(band_results) < Len(ENERGY_BANDS)
    /\ band_results' = Append(band_results,
            PlannedBand(ENERGY_BANDS[Len(band_results) + 1],
                        soc, soh, temp_c, wind_ms))
    /\ pc' = IF Len(band_results) + 1 = Len(ENERGY_BANDS) THEN "select" ELSE "plan"
    /\ UNCHANGED <<soc, soh, temp_c, wind_ms, distances_km, valid_indices,
                   request, response, geometries, engine_calls, max_range>>
    /\ UNCHANGED fnVars

\* lines 241-247
Select ==
    /\ pc = "select"
    /\ LET sel == SelectBands(band_results) IN
        /\ band_results' = sel.bands
        /\ distances_km' = sel.distances
        /\ valid_indices' = sel.indices
    /\ pc' = "branch"
    /\ UNCHANGED <<soc, soh, temp_c, wind_ms, request, response, geometries,
                   engine_calls, max_range>>
    /\ UNCHANGED fnVars

\* lines 249-250 and 164-170: the POST carrying every requested distance
CallEngine ==
    /\ pc = "branch"
    /\ ShouldFetch(distances_km)
    /\ request' = distances_km
    /\ engine_calls' = engine_calls + 1
    /\ pc' = "await"
    /\ UNCHANGED <<soc, soh, temp_c, wind_ms, band_results, distances_km,
                   valid_indices, response, geometries, max_range>>
    /\ UNCHANGED fnVars

\* line 249, the branch not taken
SkipEngine ==
    /\ pc = "branch"
    /\ ~ShouldFetch(distances_km)
    /\ pc' = "output"
    /\ UNCHANGED <<soc, soh, temp_c, wind_ms, band_results, distances_km,
                   valid_indices, request, response, geometries, engine_calls,
                   max_range>>
    /\ UNCHANGED fnVars

\* lines 170-202: the engine's outcome and what the reconciler returns
EngineReturns ==
    /\ pc = "await"
    /\ \E resp \in Responses(request) :
        LET got == fetch_valhalla_isodistance(request, resp) IN
        /\ response' = resp
        /\ geometries' = got.results
        /\ pc' = IF got.escaped THEN "crashed" ELSE "attach"
    /\ UNCHANGED <<soc, soh, temp_c, wind_ms, band_results, distances_km,
                   valid_indices, request, engine_calls, max_range>>
    /\ UNCHANGED fnVars

\* lines 251-252
Attach ==
    /\ pc = "attach"
    /\ band_results' = AttachGeometries(band_results, valid_indices, geometries)
    /\ pc' = "output"
    /\ UNCHANGED <<soc, soh, temp_c, wind_ms, distances_km, valid_indices,
                   request, response, geometries, engine_calls, max_range>>
    /\ UNCHANGED fnVars

\* line 259
Output ==
    /\ pc = "output"
    /\ max_range' = IF band_results # <<>> THEN band_results[1].range_km ELSE 0
    /\ pc' = "done"
    /\ UNCHANGED <<soc, soh, temp_c, wind_ms, band_results, distances_km,
                   valid_indices, request, response, geometries, engine_calls>>
    /\ UNCHANGED fnVars

Next ==
    \/ PlanBand
    \/ Select
    \/ CallEngine
    \/ SkipEngine
    \/ EngineReturns
    \/ Attach
    \/ Output

Spec == Init /\ [][Next]_vars

-----------------------------------------------------------------------------
(* Function-level harnesses: the arguments are drawn from bounded sets and *)
(* the function is applied once.                                           *)

IdlePipeline ==
    /\ pc = "idle"
    /\ soc = 0 /\ soh = 0 /\ temp_c = 0 /\ wind_ms = 0
    /\ band_results = <<>>
    /\ distances_km = <<>>
    /\ valid_indices = <<>>
    /\ request = <<>>
    /\ response = NoResponse
    /\ geometries = <<>>
    /\ engine_calls = 0
    /\ max_range = Missing

SpeedValues == {1, 35, 60, 100, 130}
GradeValues == {-100, -20, -5, 0, 2, 3, 5, 50}
ModelTempValues == {-100, -30, -15, 0, 5, 15, 25, 30, 40, 50, 100}
ModelWindValues == {0, 3, 10, 20}

InitConsumption ==
    /\ IdlePipeline
    /\ fn_in \in [speed_kmh : SpeedValues, temp_c : ModelTempValues,
                  wind_ms : ModelWindValues, elev : GradeValues]
    /\ fn_out = NoCall

\* compute_energy_consumption_kwh_per_km(speed_kmh, temp_c, wind_ms, elev)
CallConsumption ==
    /\ ~fn_out.done
    /\ fn_out' = [done |-> TRUE,
                  p_total |-> PTotal(fn_in.speed_kmh, fn_in.temp_c,
                                     fn_in.wind_ms, fn_in.elev),
                  value |-> compute_energy_consumption_kwh_per_km(
                                fn_in.speed_kmh, fn_in.temp_c,
                                fn_in.wind_ms, fn_in.elev)]
    /\ UNCHANGED fn_in
    /\ UNCHANGED pipeVars

NextConsumption == CallConsumption

SpecConsumption == InitConsumption /\ [][NextConsumption]_vars

RangeSocValues == {0, 3, 5, 6, 50, 80, 100}
RangeSohValues == {-10, 0, 50, 95, 100}
FractionValues == {1, 25, 50, 75, 100}

InitRange ==
    /\ IdlePipeline
    /\ fn_in \in [soc : RangeSocValues, soh : RangeSohValues,
                  temp_c : ModelTempValues, wind_ms : ModelWindValues,
                  energy_fraction : FractionValues]
    /\ fn_out = NoCall

\* calculate_range_km(soc, soh, temp_c, wind_ms, energy_fraction)
CallRange ==
    /\ ~fn_out.done
    /\ fn_out' = [done |-> TRUE, p_total |-> 0,
                  value |-> calculate_range_km(fn_in.soc, fn_in.soh,
                                fn_in.temp_c, fn_in.wind_ms,
                                fn_in.energy_fraction)]
    /\ UNCHANGED fn_in
    /\ UNCHANGED pipeVars

NextRange == CallRange

SpecRange == InitRange /\ [][NextRange]_vars

-----------------------------------------------------------------------------
(* Properties.  The predicates on a response below are stated on the       *)
(* response itself, not through the operators of the reconciler.           *)

SetMin(S) == CHOOSE x \in S : \A y \in S : x <= y
SetMax(S) == CHOOSE x \in S : \A y \in S : x >= y

Returned == response # NoResponse

\* the feature carries a distance and a geometry
IsPair(f) == f.shape = "object" /\ f.ckind = "number" /\ f.gkind # "falsy"

\* reading the feature raises: it is no object, or it has a contour and a
\* non-empty geometry and float() rejects the contour or the geometry has
\* no "type"
FeatureRaises(f) ==
    \/ f.shape # "object"
    \/ /\ f.ckind # "null"
       /\ f.gkind # "falsy"
       /\ (f.ckind = "text" \/ f.gkind = "untyped")

ProcessingFails(resp) ==
    \/ resp.kind \in FailureKinds
    \/ \E k \in 1..Len(resp.features) : FeatureRaises(resp.features[k])

\* the response is one of the failures the claim lists, read literally
ListedFailure(resp) ==
    \/ resp.kind \in FailureKinds
    \/ \E k \in 1..Len(resp.features) :
        \/ resp.features[k].shape # "object"
        \/ resp.features[k].ckind = "text"
        \/ resp.features[k].gkind = "untyped"

AllAbsent == 
    /\ Len(geometries) = Len(request)
    /\ \A i \in 1..Len(geometries) : geometries[i] = None

\* the pairs of the response within the tolerance of d
Near(d, resp) ==
    {k \in 1..Len(resp.features) :
        /\ IsPair(resp.features[k])
        /\ Abs(resp.features[k].cval - d) < Tolerance}

\* the first pair, in the engine's order, within the tolerance of d
FirstPairMatch(d, resp) ==
    IF Near(d, resp) = {} THEN None ELSE SetMin(Near(d, resp))

\* the last pair that carries the distance of the first pair within the
\* tolerance of d
FirstDistanceLastGeometry(d, resp) ==
    IF Near(d, resp) = {} THEN None
    ELSE LET vd == resp.features[SetMin(Near(d, resp))].cval
         IN  SetMax({k \in 1..Len(resp.features) :
                        IsPair(resp.features[k]) /\ resp.features[k].cval = vd})

\* C1 as stated: no exception escapes fetch_valhalla_isodistance, and for
\* every listed engine failure (connection failure, HTTP error status,
\* non-JSON body, non-object top level, a feature that is no object, a
\* non-numeric contour value, a geometry without a type) the result has one
\* entry per requested distance, every one absent.
C1_ListedFailureAllAbsent ==
    /\ pc # "crashed"
    /\ (Returned /\ ListedFailure(response)) => AllAbsent

\* C1 amended: no exception escapes fetch_valhalla_isodistance, and whenever
\* processing the engine's outcome fails (connection failure, HTTP error
\* status, non-JSON body, non-object top level, a feature that is no object,
\* or a feature with a contour and a non-empty geometry whose contour is
\* non-numeric or whose geometry has no type) the result has one entry per
\* requested distance, every one absent.
C1_FailureAllAbsent ==
    /\ pc # "crashed"
    /\ (Returned /\ ProcessingFails(response)) => AllAbsent

\* C1 witness: a response holding a pair within tolerance of a requested
\* distance and a feature that raises; the run ended with all absent.
C1_Witness ==
    /\ pc = "done"
    /\ response.kind = "features"
    /\ ProcessingFails(response)
    /\ \E i \in 1..Len(request) : Near(request[i], response) # {}
    /\ AllAbsent

\* C2 as stated, read for the responses processed without failure (C1 has
\* the others): each requested distance d gets the geometry of the first
\* returned pair, in the engine's order, whose distance is within 1.0 km of
\* d, and is absent when there is none, also when the response repeats a
\* contour distance with different geometries.
C2_FirstPairInEngineOrder ==
    (Returned /\ ~ProcessingFails(response)) =>
        /\ Len(geometries) = Len(request)
        /\ \A i \in 1..Len(request) :
                geometries[i] = FirstPairMatch(request[i], response)

\* C2 amended: for every engine response processed without failure, each
\* requested distance d gets a geometry exactly when some returned pair is
\* within 1.0 km of d (strictly); the pair that decides is the first such
\* pair in the engine's order, and the geometry attached is that of the last
\* returned pair carrying that pair's distance (a repeated contour distance
\* keeps its first place and takes its latest geometry).
C2_FirstDistanceLatestGeometry ==
    (Returned /\ ~ProcessingFails(response)) =>
        /\ Len(geometries) = Len(request)
        /\ \A i \in 1..Len(request) :
                geometries[i] = FirstDistanceLastGeometry(request[i], response)

\* C2 witness: the same contour distance returned twice, within tolerance of
\* a requested distance, and the second geometry attached.
C2_Witness ==
    /\ pc = "done"
    /\ ~ProcessingFails(response)
    /\ Len(response.features) >= 2
    /\ response.features[1].cval = response.features[2].cval
    /\ \E i \in 1..Len(request) :
        /\ 1 \in Near(request[i], response)
        /\ 2 \in Near(request[i], response)
        /\ geometries[i] = 2

\* C3: whenever a geometry is attached to a requested distance d, no other
\* returned contour is strictly closer to d than the contour matched.
C3_NearestContourMatched ==
    Returned =>
        \A i \in 1..Len(geometries) :
            geometries[i] # None =>
                \A k \in 1..Len(response.features) :
                    IsPair(response.features[k]) =>
                        Abs(response.features[k].cval - request[i])
                            >= Abs(response.features[geometries[i]].cval - request[i])

\* the bands whose range reaches the minimum viable distance
QualifyingBands ==
    {i \in 1..Len(band_results) : band_results[i].range_km >= MinViable}

\* C4: the engine is called at most once in a run; the call is made after
\* every band range is computed and carries the distance of every
\* qualifying band; a finished run made no call exactly when no band
\* qualified.
C4_SingleBatchedCall ==
    /\ engine_calls <= 1
    /\ engine_calls = 1 =>
        /\ Len(band_results) = Len(ENERGY_BANDS)
        /\ Len(request) = Cardinality(QualifyingBands)
        /\ \A i \in QualifyingBands :
              \E p \in 1..Len(request) :
                  request[p] = RoundTenth(band_results[i].range_km)
    /\ engine_calls = 0 => request = <<>>
    /\ pc \in {"output", "done"} =>
        (engine_calls = 0 <=> QualifyingBands = {})

\* C4 witness: a finished run whose one call carried at least three bands.
C4_Witness ==
    /\ pc = "done"
    /\ engine_calls = 1
    /\ Len(request) >= 3

\* C5: a band's distance is in the routing request if and only if its range
\* is >= 1.0 km; a band below 1.0 km is never sent and ends the run with
\* geometry None, whatever the engine returned.
C5_RequestedIffViable ==
    /\ pc \in {"branch", "await", "attach", "output", "done"} =>
        /\ Len(distances_km) = Len(valid_indices)
        /\ \A i \in 1..Len(band_results) :
              (band_results[i].range_km >= MinViable)
                  <=> (\E p \in 1..Len(valid_indices) : valid_indices[p] = i)
        /\ \A p \in 1..Len(valid_indices) :
              distances_km[p] = RoundTenth(band_results[valid_indices[p]].range_km)
    /\ engine_calls = 1 => request = distances_km
    /\ pc = "done" =>
        \A i \in 1..Len(band_results) :
            band_results[i].range_km < MinViable => band_results[i].geometry = None

\* C5 witness: a finished run in which a band with a positive range below
\* 1.0 km has geometry None while another band received a geometry.
C5_Witness ==
    /\ pc = "done"
    /\ \E i, j \in 1..Len(band_results) :
        /\ band_results[i].range_km > 0
        /\ band_results[i].range_km < MinViable
        /\ band_results[i].geometry = None
        /\ band_results[j].geometry >= 1

\* C6: calculate_range_km returns exactly 0 for every state-of-charge at or
\* below the reserve threshold, whatever the other arguments, and its result
\* is never negative for state-of-health >= 0 and a fraction in (0, 1].
C6_ZeroAtReserveNeverNegative ==
    fn_out.done =>
        /\ fn_in.soc <= RESERVE_SOC_PCT => fn_out.value = 0
        /\ fn_in.soh >= 0 => fn_out.value >= 0

\* C6 witness: a call at the reserve threshold with a healthy battery.
C6_Witness ==
    /\ fn_out.done
    /\ fn_in.soc = RESERVE_SOC_PCT
    /\ fn_in.soh = 100
    /\ fn_in.energy_fraction = 100
    /\ fn_out.value = 0

\* C7: with the other arguments fixed the range is non-decreasing in the
\* usable-energy fraction, so the planned bands have non-increasing ranges
\* in band order, and the reported maximum range (band 0's) is >= the range
\* of every band.
C7_MonotoneInFraction ==
    /\ \A i, j \in 1..Len(band_results) :
          band_results[i].fraction >= band_results[j].fraction
              => band_results[i].range_km >= band_results[j].range_km
    /\ \A i \in 1..Len(band_results) :
          i > 1 => band_results[i - 1].range_km >= band_results[i].range_km
    /\ pc = "done" =>
          \A i \in 1..Len(band_results) : max_range >= band_results[i].range_km

\* C7 witness: a finished run with four bands of strictly decreasing range.
C7_Witness ==
    /\ pc = "done"
    /\ Len(band_results) = 4
    /\ \A i \in 2..4 : band_results[i - 1].range_km > band_results[i].range_km
    /\ max_range = band_results[1].range_km

\* C8: whatever the engine's outcome, the final band list has one band per
\* configured fraction, in the configured order, each with the label,
\* fraction, color and range the planner computed, and each with its
\* geometry field defined (a geometry or None).
C8_NumericAnswerIndependentOfEngine ==
    pc = "done" =>
        /\ Len(band_results) = Len(ENERGY_BANDS)
        /\ \A i \in 1..Len(band_results) :
            /\ band_results[i].label = ENERGY_BANDS[i].label
            /\ band_results[i].fraction = ENERGY_BANDS[i].fraction
            /\ band_results[i].color = ENERGY_BANDS[i].color
            /\ band_results[i].range_km =
                  calculate_range_km(soc, soh, temp_c, wind_ms,
                                     ENERGY_BANDS[i].fraction)
            /\ band_results[i].geometry # Missing

\* C8 witness: a finished run whose engine call failed, with a band that
\* had asked for a geometry.
C8_Witness ==
    /\ pc = "done"
    /\ response.kind \in FailureKinds
    /\ \E i \in 1..Len(band_results) :
        /\ band_results[i].range_km >= MinViable
        /\ band_results[i].geometry = None

\* C9 as stated: the total power divided by speed is strictly above the
\* 0.5 kW floor and the consumption is strictly positive, for every valid
\* input, downhill grades included.
C9_StrictlyAboveFloor ==
    fn_out.done =>
        /\ fn_out.p_total > MinPower
        /\ fn_out.value > 0

\* C9 amended: the total power divided by speed is at least the 0.5 kW floor
\* (it equals the floor when regenerative recovery outweighs the rest) and
\* the consumption is strictly positive, for every valid input.
C9_AtLeastFloor ==
    fn_out.done =>
        /\ fn_out.p_total >= MinPower
        /\ fn_out.value > 0

\* C9 witness: a downhill call whose total power is exactly the floor.
C9_Witness ==
    /\ fn_out.done
    /\ fn_in.elev < 0
    /\ fn_out.p_total = MinPower
    /\ fn_out.value > 0

\* what the reconciler computes for the distance d alone
MatchOf(d, resp) ==
    IF ProcessingFails(resp) THEN None
    ELSE MatchGeometry(d, CollectFeatures(resp.features, 1, <<>>).dict)

\* C10: the list the reconciler returns has one entry per requested
\* distance, in request order, on every path, so that every qualifying band
\* ends with the match computed for its own rounded range, none is left
\* without a geometry field and none takes another band's result.
C10_ResultAlignedWithRequest ==
    /\ Returned =>
        /\ Len(geometries) = Len(request)
        /\ Len(valid_indices) = Len(request)
    /\ (pc \in {"output", "done"} /\ engine_calls = 1) =>
        \A i \in 1..Len(band_results) :
            band_results[i].range_km >= MinViable =>
                band_results[i].geometry =
                    MatchOf(RoundTenth(band_results[i].range_km), response)

\* C10 witness: a finished run in which two qualifying bands ended with
\* different results, one of them a geometry.
C10_Witness ==
    /\ pc = "done"
    /\ engine_calls = 1
    /\ \E i, j \in 1..Len(band_results) :
        /\ i < j
        /\ band_results[j].range_km >= MinViable
        /\ band_results[i].geometry = None
        /\ band_results[j].geometry >= 1

====
